---- MODULE Spec2Model ----
(***************************************************************************)
(* Model of the measurement session of frontend/src/pages/Measure.jsx:     *)
(* the React state of the Measure component, the four sliding windows held *)
(* in refs, the pose.onResults frame callback (a closure over the state of *)
(* the render that registered it), the effect that registers it, and the   *)
(* operator controls setCalibration / retake / recalibrate.                *)
(*                                                                         *)
(* Units.  A normalized landmark coordinate x in [0,1] is the integer      *)
(* x * FrameW, so that x * W is a whole number of pixels.  Lengths in cm   *)
(* and cmPerPx are integers in units of 1/CmScale.  All arithmetic is      *)
(* exact; the frames and bar widths are chosen so that every division the  *)
(* code performs is exact in these units.                                  *)
(*                                                                         *)
(* React.  The state updates of one handler are committed together.  The   *)
(* effect of a commit whose dependencies changed runs in a later step      *)
(* (RunEffect); frames may be delivered in between, to the callbacks that  *)
(* are registered at that moment.  React flushes a pending effect before   *)
(* it starts another update, so the operator controls wait for it.         *)
(*                                                                         *)
(* Camera.  The external Camera is modelled at its interface: start()      *)
(* makes the instance deliver frames to the pose it was built for, stop()  *)
(* ends that.  getUserMedia is taken to resolve at once.                   *)
(***************************************************************************)
EXTENDS Integers, Sequences, FiniteSets, TLC

VARIABLES
    phase,            \* useState "calibrate" | "measure" | "locked" | "error"
    status,           \* useState status line
    barPx,            \* useState reference bar width in px
    cmPerPx,          \* useState, 0 is null
    locked,           \* useState boolean
    meas,             \* useState, <<>> is null, <<m>> is the record m
    recentShoulderN,  \* ref: stability window
    chestBuf,         \* ref: chest window
    shoulderBuf,      \* ref: shoulder window
    waistBuf,         \* ref: waist window
    poseRef,          \* ref: <<>> is null, <<cl>> the pose whose callback closes over cl
    camRef,           \* ref: id of the Camera held, 0 when null or already stopped
    srcObject,        \* video.srcObject: id of the Camera whose stream is attached, 0 when null
    cams,             \* running Camera instances: id -> closure of the pose they feed
    effDeps,          \* dependency array of the last effect run, <<>> before the first
    hasCleanup,       \* the last effect run returned its cleanup function
    base,             \* kind of the first frame pushed since the windows were cleared
    odd,              \* number of pushed frames of another kind since then
    pushed,           \* number of frames pushed since the windows were cleared (saturating)
    sizeArgs,         \* <<chestCm, waistCm, shoulderCm>> of the last recommendTopSize call, <<>> before
    sizeRet,          \* what the successive calls on these arguments returned, in order
    estimatedSize,    \* <<>>, or <<size>> returned by estimateSizeFromMeasurements for sizeArgs
    href              \* <<>> while the page is shown, <<query>> once /recommendations is navigated to

vars == <<phase, status, barPx, cmPerPx, locked, meas, recentShoulderN, chestBuf,
          shoulderBuf, waistBuf, poseRef, camRef, srcObject, cams, effDeps,
          hasCleanup, base, odd, pushed, sizeArgs, sizeRet,
          estimatedSize, href>>

bufs == <<recentShoulderN, chestBuf, shoulderBuf, waistBuf>>
react == <<phase, status, barPx, cmPerPx, locked, meas>>
camVars == <<camRef, srcObject, cams>>
ghost == <<base, odd, pushed>>
calls == <<sizeArgs, sizeRet>>
out == <<estimatedSize, href>>

-----------------------------------------------------------------------------
(* Bounds of the model *)

MaxOdd == 1          \* SpecWindows: pushed frames that differ from the first one, per window filling
MaxOddSession == 0   \* Spec: the same
MaxCalls == 2        \* recommendTopSize calls recorded on the same arguments
MaxCams == 2         \* Camera instances running at once

(* Program constants *)

A4_WIDTH_CM == 21
STABILITY_FRAMES == 12
MOVEMENT_EPS_MILLI == 15      \* MOVEMENT_EPS = 0.015
GUIDE_MARGIN_PCT == 8         \* GUIDE_MARGIN = 0.08
VIS_PCT == 45                 \* visibility threshold 0.45
MEDIAN_N == 15                \* pushMed default n
SPREAD_MIN == 8               \* chest samples needed for a spread
SPREAD_NONE_CM == 999         \* spread when there are fewer
SPREAD_LIMIT_MILLI == 1800    \* spread < 1.8
MIN_BAR_PX == 40
FrameW == 1280                \* res.image.width, as requested from the Camera
InitBarPx == 300

CmScale == 2 * 100 * 100      \* cm and cmPerPx are held in units of 1/CmScale
BarValues == {30, 40, 300, 420}   \* bar widths used (each divides A4_WIDTH_CM * CmScale)
PushedCap == MEDIAN_N + 1

Abs(n) == IF n < 0 THEN 0 - n ELSE n

-----------------------------------------------------------------------------
(* Frames: the results the external pose estimator can deliver *)

Lm(x, y, v) == [x |-> x, y |-> y, v |-> v]

MkFrame(k, lm, l11, l12, l23, l24) ==
    [k |-> k, lm |-> lm, Lsh |-> l11, Rsh |-> l12, Lhip |-> l23, Rhip |-> l24]

\* no landmarks at all
fNone == MkFrame("none", FALSE, Lm(0,0,0), Lm(0,0,0), Lm(0,0,0), Lm(0,0,0))
\* right shoulder exactly at the threshold, which is not above it
fShoulder == MkFrame("shoulder", TRUE, Lm(840,300,90), Lm(440,300,45), Lm(760,700,90), Lm(520,700,90))
\* neither hip above the threshold
fNoHips == MkFrame("nohips", TRUE, Lm(840,300,90), Lm(440,300,90), Lm(760,700,20), Lm(520,700,30))
\* left shoulder outside the guide rectangle
fOut == MkFrame("out", TRUE, Lm(1200,300,90), Lm(800,300,90), Lm(1100,700,90), Lm(900,700,90))
\* left shoulder outside the guide rectangle and not visible either
fOutHidden == MkFrame("outhidden", TRUE, Lm(1200,300,20), Lm(800,300,90), Lm(1100,700,90), Lm(900,700,90))
\* only the right hip is visible and it sits on the shoulder midpoint
fZeroTorso == MkFrame("zerotorso", TRUE, Lm(840,300,90), Lm(440,300,90), Lm(760,700,10), Lm(640,300,90))
\* shoulders 400 px apart, level; both hips
fA == MkFrame("A", TRUE, Lm(840,300,90), Lm(440,300,90), Lm(760,700,90), Lm(520,700,90))
\* shoulders 408 px apart; only the right hip visible
fB == MkFrame("B", TRUE, Lm(844,300,90), Lm(436,300,90), Lm(760,700,45), Lm(520,700,90))
\* shoulders 416 px apart; both hips, wider
fC == MkFrame("C", TRUE, Lm(848,300,90), Lm(432,300,90), Lm(780,700,90), Lm(500,700,90))
\* shoulders 403 px apart; both hips
fE == MkFrame("E", TRUE, Lm(842,300,90), Lm(439,300,90), Lm(760,700,90), Lm(520,700,90))
\* shoulders 400 px apart horizontally and 300 vertically (tilted): width 500
fD == MkFrame("D", TRUE, Lm(840,450,90), Lm(440,150,90), Lm(760,700,90), Lm(520,700,90))
\* shoulders one above the other: no horizontal distance, width 400
fV == MkFrame("V", TRUE, Lm(640,500,90), Lm(640,900,90), Lm(760,1000,90), Lm(520,1000,90))

Frames == {fNone, fShoulder, fNoHips, fOut, fOutHidden, fZeroTorso, fA, fB, fC, fD, fE, fV}

\* the frames of Spec: every way to be turned away, and three kinds that are pushed
SessionFrames == {fNone, fShoulder, fNoHips, fOut, fOutHidden, fZeroTorso, fA, fB, fD}

\* the frames of SpecWindows: a subject who stays in view, so each passes the Landmark Gate
GatedFrames == {fZeroTorso, fA, fB, fC, fD, fE, fV}

-----------------------------------------------------------------------------
(* Helpers of the frame callback *)

\* Math.hypot(a.x-b.x, a.y-b.y); the frames keep it a whole number
getDistance(a, b) ==
    LET q == (a.x - b.x) * (a.x - b.x) + (a.y - b.y) * (a.y - b.y)
    IN  CHOOSE r \in 0..(Abs(a.x - b.x) + Abs(a.y - b.y)) : r * r = q

\* (lm[i]?.visibility ?? 0) > 0.45
vis(l) == l.v > VIS_PCT

shouldersOK(f) == vis(f.Lsh) /\ vis(f.Rsh)
hipsOK(f) == vis(f.Lhip) \/ vis(f.Rhip)

\* const hip = vis(23) ? Lhip : Rhip
hipOf(f) == IF vis(f.Lhip) THEN f.Lhip ELSE f.Rhip

\* p.x*W>=gx && p.x*W<=gx+gW && p.y*H>=gy && p.y*H<=gy+gH, with W and H divided out
insidePoint(p) ==
    /\ 100 * p.x >= GUIDE_MARGIN_PCT * FrameW
    /\ 100 * p.x <= (100 - GUIDE_MARGIN_PCT) * FrameW
    /\ 100 * p.y >= GUIDE_MARGIN_PCT * FrameW
    /\ 100 * p.y <= (100 - GUIDE_MARGIN_PCT) * FrameW

inside(f) == \A p \in {f.Lsh, f.Rsh, hipOf(f)} : insidePoint(p)

\* torsoHeightN <= 0, for shMid the midpoint of the shoulders
torsoZero(f) ==
    /\ f.Lsh.x + f.Rsh.x = 2 * hipOf(f).x
    /\ f.Lsh.y + f.Rsh.y = 2 * hipOf(f).y

\* mutant: the shoulder and hip visibility checks are lost
GateNoVisibility(f) == f.lm /\ inside(f)

\* the checks a frame passes before anything is pushed, in the code's order
Gate(f) == f.lm /\ shouldersOK(f) /\ hipsOK(f) /\ inside(f)

\* mutant: a full window gives up its newest sample, not its oldest
PushEvictNewest(buf, val, n) ==
    IF Len(buf) + 1 > n THEN Append(SubSeq(buf, 1, n - 1), val) ELSE Append(buf, val)

\* ref.current.push(val); if (ref.current.length > n) ref.current.shift()
Push(buf, val, n) ==
    IF Len(buf) + 1 > n THEN Tail(Append(buf, val)) ELSE Append(buf, val)

RECURSIVE Insert(_, _)
Insert(s, v) ==
    IF s = <<>> THEN <<v>>
    ELSE IF v <= Head(s) THEN <<v>> \o s
    ELSE <<Head(s)>> \o Insert(Tail(s), v)

RECURSIVE SortedCopy(_)
\* [...ref.current].sort((a,b)=>a-b)
SortedCopy(s) == IF s = <<>> THEN <<>> ELSE Insert(SortedCopy(Tail(s)), Head(s))

\* mutant: the upper middle element, whatever the length
MedianUpper(buf) == SortedCopy(buf)[Len(buf) \div 2 + 1]

\* s.length%2 ? s[m] : (s[m-1]+s[m])/2 over the sorted copy; 0-based m is Len \div 2
MedianOf(buf) ==
    LET s == SortedCopy(buf)
        m == Len(s) \div 2
    IN  IF Len(s) % 2 = 1 THEN s[m + 1] ELSE (s[m] + s[m + 1]) \div 2

RECURSIVE SumSeq(_)
SumSeq(s) == IF s = <<>> THEN 0 ELSE Head(s) + SumSeq(Tail(s))

SeqMax(s) == CHOOSE v \in {s[i] : i \in 1..Len(s)} : \A j \in 1..Len(s) : s[j] <= v
SeqMin(s) == CHOOSE v \in {s[i] : i \in 1..Len(s)} : \A j \in 1..Len(s) : s[j] >= v

\* maxDev < MOVEMENT_EPS, for avg the mean of bufN; both sides times 1000 * Len * FrameW
maxDevSmall(bufN) ==
    \A i \in 1..Len(bufN) :
        1000 * Abs(bufN[i] * Len(bufN) - SumSeq(bufN))
            < MOVEMENT_EPS_MILLI * FrameW * Len(bufN)

\* mutant: the spread is taken between the oldest and the newest sample
spreadOldestNewest(chest) ==
    IF Len(chest) >= SPREAD_MIN THEN Abs(chest[Len(chest)] - chest[1])
    ELSE SPREAD_NONE_CM * CmScale

\* chestBuf.length>=8 ? max-min : 999
spreadOf(chest) ==
    IF Len(chest) >= SPREAD_MIN THEN SeqMax(chest) - SeqMin(chest)
    ELSE SPREAD_NONE_CM * CmScale

\* mutant: the length of the stability window is not looked at
stableNoCapacity(bufN, chest) ==
    /\ maxDevSmall(bufN)
    /\ spreadOf(chest) < (SPREAD_LIMIT_MILLI * CmScale) \div 1000

\* mutant: the spread of the chest window is not looked at
stableNoSpread(bufN, chest) == Len(bufN) >= STABILITY_FRAMES /\ maxDevSmall(bufN)

\* bufN.length>=STABILITY_FRAMES && maxDev < MOVEMENT_EPS && spread < 1.8
stableOf(bufN, chest) ==
    /\ Len(bufN) >= STABILITY_FRAMES
    /\ maxDevSmall(bufN)
    /\ spreadOf(chest) < (SPREAD_LIMIT_MILLI * CmScale) \div 1000

\* mutant: the shoulder sample is taken along the shoulder line, not horizontally
shoulderCmAlongLine(f, cm) == getDistance(f.Lsh, f.Rsh) * cm

\* Math.abs((Lsh.x - Rsh.x) * W) * cmPerPx
shoulderCmOf(f, cm) == Abs(f.Lsh.x - f.Rsh.x) * cm

\* mutant: the chest sample is the shoulder sample
chestCmNoMultiplier(f, cm) == shoulderCmOf(f, cm)

\* shoulderCm * CHEST_MULTIPLIER, 1.75
chestCmOf(f, cm) == (shoulderCmOf(f, cm) * 175) \div 100

\* both hips visible: hipFlatCm * UPPER_WAIST_FACTOR, 0.90
waistSample(f) == vis(f.Lhip) /\ vis(f.Rhip)
waistCmOf(f, cm) == (Abs(f.Lhip.x - f.Rhip.x) * cm * 90) \div 100

\* Number(v.toFixed(1)): tenths of a cm
toFixed1(v) == (v * 10 + CmScale \div 2) \div CmScale
\* Number(v.toFixed(2)): hundredths of a cm
toFixed2(v) == (v * 100 + CmScale \div 2) \div CmScale

Undefined == 0 - 1

-----------------------------------------------------------------------------
(* Size recommendation.  Measurements are in tenths of a cm (the precision *)
(* of a locked record), Undefined when missing; "null" is the null result. *)

\* !v
falsy(v) == v = Undefined \/ v = 0

\* the guard of the early return
invalidInput(chestCm, waistCm, shoulderCm) ==
    \/ falsy(chestCm) \/ falsy(waistCm) \/ falsy(shoulderCm)
    \/ chestCm <= 0 \/ waistCm <= 0 \/ shoulderCm <= 0

xlScore(chestCm, waistCm, shoulderCm) ==
    (IF chestCm >= 1000 THEN 3 ELSE IF chestCm >= 950 THEN 2 ELSE IF chestCm >= 900 THEN 1 ELSE 0)
    + (IF shoulderCm >= 480 THEN 2 ELSE IF shoulderCm >= 450 THEN 1 ELSE 0)
    + (IF waistCm >= 850 THEN 2 ELSE IF waistCm >= 800 THEN 1 ELSE 0)

lScore(chestCm, waistCm, shoulderCm) ==
    (IF chestCm >= 900 THEN 0 ELSE IF chestCm >= 850 THEN 2 ELSE IF chestCm >= 800 THEN 1 ELSE 0)
    + (IF shoulderCm >= 450 THEN 0 ELSE IF shoulderCm >= 420 THEN 2 ELSE IF shoulderCm >= 380 THEN 1 ELSE 0)
    + (IF waistCm >= 800 THEN 0 ELSE IF waistCm >= 750 THEN 2 ELSE IF waistCm >= 700 THEN 1 ELSE 0)

\* mutant: no early return
recommendTopSizeNoGuard(chestCm, waistCm, shoulderCm) ==
    IF xlScore(chestCm, waistCm, shoulderCm) > lScore(chestCm, waistCm, shoulderCm)
    THEN "XL" ELSE "L"

\* mutant: the result depends on how often the function was called before
recommendTopSizeCounting(chestCm, waistCm, shoulderCm) ==
    IF invalidInput(chestCm, waistCm, shoulderCm) THEN "null"
    ELSE IF (xlScore(chestCm, waistCm, shoulderCm) > lScore(chestCm, waistCm, shoulderCm))
            = (Len(sizeRet) % 2 = 0)
    THEN "XL" ELSE "L"

\* mutant: equal scores go to XL
recommendTopSizeTiesXL(chestCm, waistCm, shoulderCm) ==
    IF invalidInput(chestCm, waistCm, shoulderCm) THEN "null"
    ELSE IF xlScore(chestCm, waistCm, shoulderCm) >= lScore(chestCm, waistCm, shoulderCm)
    THEN "XL" ELSE "L"

recommendTopSize(chestCm, waistCm, shoulderCm) ==
    IF invalidInput(chestCm, waistCm, shoulderCm) THEN "null"
    ELSE IF xlScore(chestCm, waistCm, shoulderCm) > lScore(chestCm, waistCm, shoulderCm)
    THEN "XL" ELSE "L"

-----------------------------------------------------------------------------
(* The general classifier of backend/routes/ml.js, same units.  A ratio    *)
(* a / b < 0.80 is compared as 100 * a < 80 * b.                           *)

sizeOrder == <<"XXS", "XS", "S", "M", "L", "XL", "XXL", "3XL", "4XL">>

primarySize(chestCm) ==
    IF chestCm < 800 THEN "XXS"
    ELSE IF chestCm < 850 THEN "XS"
    ELSE IF chestCm < 900 THEN "S"
    ELSE IF chestCm < 950 THEN "M"
    ELSE IF chestCm < 1000 THEN "L"
    ELSE IF chestCm < 1050 THEN "XL"
    ELSE IF chestCm < 1100 THEN "XXL"
    ELSE IF chestCm < 1150 THEN "3XL"
    ELSE "4XL"

\* sizeOrder.indexOf(size), counted from 1
indexOf(size) == CHOOSE i \in DOMAIN sizeOrder : sizeOrder[i] = size

\* mutant: the ratio bounds themselves already adjust
sizeAdjustmentInclusive(chestCm, waistCm, shoulderCm) ==
    (IF 100 * waistCm <= 80 * chestCm THEN 0 - 1
     ELSE IF 100 * waistCm >= 90 * chestCm THEN 1 ELSE 0)
    + (IF 100 * shoulderCm >= 60 * chestCm THEN 1
       ELSE IF 100 * shoulderCm <= 50 * chestCm THEN 0 - 1 ELSE 0)

sizeAdjustment(chestCm, waistCm, shoulderCm) ==
    (IF 100 * waistCm < 80 * chestCm THEN 0 - 1
     ELSE IF 100 * waistCm > 90 * chestCm THEN 1 ELSE 0)
    + (IF 100 * shoulderCm > 60 * chestCm THEN 1
       ELSE IF 100 * shoulderCm < 50 * chestCm THEN 0 - 1 ELSE 0)

Max(a, b) == IF a >= b THEN a ELSE b
Min(a, b) == IF a <= b THEN a ELSE b

\* waistCm is measurements.upperWaistCm || measurements.waistCm
estimateSizeFromMeasurements(chestCm, waistCm, shoulderCm) ==
    IF invalidInput(chestCm, waistCm, shoulderCm) THEN "M"
    ELSE sizeOrder[Max(1, Min(Len(sizeOrder),
                              indexOf(primarySize(chestCm))
                              + sizeAdjustment(chestCm, waistCm, shoulderCm)))]

\* arguments the classifier is applied to on its own
ChestValues == {Undefined, 0 - 50, 0, 790, 800, 850, 900, 950, 1000, 1050, 1100, 1150}
WaistValues == {Undefined, 0, 650, 720, 800, 900, 1100}
ShoulderValues == {Undefined, 0, 350, 400, 450, 500, 600, 700}

-----------------------------------------------------------------------------
(* Cameras and the effect *)

\* what a pose.onResults callback closes over
Cl(ph, cm, lk) == [phase |-> ph, cmPerPx |-> cm, locked |-> lk]

NoCams == [i \in {} |-> Cl("calibrate", 0, FALSE)]

\* camRef.current?.stop?.(), and the tracks of video.srcObject stopped
camsAfterStop(c, ref, src) == [i \in (DOMAIN c) \ {ref, src} |-> c[i]]

FreeId(c) == CHOOSE i \in 1..(MaxCams + 1) :
                /\ i \notin DOMAIN c
                /\ \A j \in 1..(i - 1) : j \in DOMAIN c

\* new Camera(v, {onFrame: () => pose.send(...)}) started
camsAfterStart(c, cl) ==
    [i \in (DOMAIN c) \cup {FreeId(c)} |-> IF i = FreeId(c) THEN cl ELSE c[i]]

Running == DOMAIN cams

stopCamera ==
    /\ cams' = camsAfterStop(cams, camRef, srcObject)
    /\ camRef' = 0
    /\ srcObject' = 0

startCamera(cl) ==
    /\ Cardinality(DOMAIN cams) < MaxCams
    /\ cams' = camsAfterStart(cams, cl)
    /\ camRef' = FreeId(cams)
    /\ srcObject' = FreeId(cams)

\* mutant: the chest window is not cleared
ResetBuffersKeepChest ==
    /\ recentShoulderN' = <<>>
    /\ chestBuf' = chestBuf
    /\ shoulderBuf' = <<>>
    /\ waistBuf' = <<>>
    /\ base' = "none"
    /\ odd' = 0
    /\ pushed' = 0
    /\ sizeArgs' = <<>>
    /\ sizeRet' = <<>>
    /\ UNCHANGED out

\* chestBuf.current = []; shoulderBuf.current = []; waistBuf.current = []; recentShoulderN.current = []
ResetBuffers ==
    /\ recentShoulderN' = <<>>
    /\ chestBuf' = <<>>
    /\ shoulderBuf' = <<>>
    /\ waistBuf' = <<>>
    /\ base' = "none"
    /\ odd' = 0
    /\ pushed' = 0
    /\ sizeArgs' = <<>>
    /\ sizeRet' = <<>>
    /\ UNCHANGED out

\* the Measure page is the document shown; navigating away ends everything on it
OnPage == href = <<>>

\* [phase, cmPerPx, getDistance, locked, barPx]
deps == <<phase, cmPerPx, locked, barPx>>

EffectPending == effDeps # deps

\* the cameras left by the cleanup of the previous effect run, if it returned one
camsAfterCleanup == IF hasCleanup THEN camsAfterStop(cams, camRef, srcObject) ELSE cams

\* the effect body runs to startCamera(pose) and returns the cleanup
RunEffectOk ==
    /\ OnPage
    /\ EffectPending
    /\ Cardinality(DOMAIN camsAfterCleanup) < MaxCams
    /\ poseRef' = <<Cl(phase, cmPerPx, locked)>>
    /\ cams' = camsAfterStart(camsAfterCleanup, Cl(phase, cmPerPx, locked))
    /\ camRef' = FreeId(camsAfterCleanup)
    /\ srcObject' = FreeId(camsAfterCleanup)
    /\ hasCleanup' = TRUE
    /\ effDeps' = deps
    /\ UNCHANGED <<react, bufs, ghost, calls, out>>

\* new Pose(...) throws: the catch sets the status and the error phase
RunEffectThrows ==
    /\ OnPage
    /\ EffectPending
    /\ cams' = camsAfterCleanup
    /\ camRef' = IF hasCleanup THEN 0 ELSE camRef
    /\ srcObject' = IF hasCleanup THEN 0 ELSE srcObject
    /\ hasCleanup' = FALSE
    /\ effDeps' = deps
    /\ status' = "MediaPipe Error"
    /\ phase' = "error"
    /\ UNCHANGED <<barPx, cmPerPx, locked, meas, poseRef, bufs, ghost, calls, out>>

-----------------------------------------------------------------------------
(* The frame callback *)

\* mutant: the check of locked is lost
neverDropped(cl) == FALSE

\* if (locked) return
droppedLocked(cl) == cl.locked

\* mutant: the callback does not return in the calibrate phase
AcceptedInCalibrate(cl, f) ==
    /\ ~droppedLocked(cl)
    /\ Gate(f)
    /\ cl.cmPerPx # 0
    /\ ~torsoZero(f)

\* mutant: the torso length is not looked at
AcceptedNoTorso(cl, f) ==
    /\ ~droppedLocked(cl)
    /\ Gate(f)
    /\ cl.phase # "calibrate"
    /\ cl.cmPerPx # 0

\* the frame reaches the pushes
Accepted(cl, f) ==
    /\ ~droppedLocked(cl)
    /\ Gate(f)
    /\ cl.phase # "calibrate"
    /\ cl.cmPerPx # 0
    /\ ~torsoZero(f)

\* mutant: the guide rectangle is checked before the visibilities
RejectStatusGuideFirst(cl, f) ==
    IF ~f.lm THEN "Detecting body"
    ELSE IF ~inside(f) THEN "Step back/center inside the frame."
    ELSE IF ~(shouldersOK(f) /\ hipsOK(f)) THEN "Show shoulders & upper torso."
    ELSE IF cl.phase = "calibrate" THEN "Adjust bar -> Set calibration."
    ELSE IF cl.cmPerPx = 0 THEN "Click Set calibration first."
    ELSE "Hold still"

\* the status an early return sets
RejectStatus(cl, f) ==
    IF ~f.lm THEN "Detecting body"
    ELSE IF ~(shouldersOK(f) /\ hipsOK(f)) THEN "Show shoulders & upper torso."
    ELSE IF ~inside(f) THEN "Step back/center inside the frame."
    ELSE IF cl.phase = "calibrate" THEN "Adjust bar -> Set calibration."
    ELSE IF cl.cmPerPx = 0 THEN "Click Set calibration first."
    ELSE "Hold still"

bufNAfter(f) == Push(recentShoulderN, getDistance(f.Lsh, f.Rsh), STABILITY_FRAMES)

\* mutant: the chest window is as short as the stability window
chestAfterShortWindow(cl, f) == Push(chestBuf, chestCmOf(f, cl.cmPerPx), STABILITY_FRAMES)

chestAfter(cl, f) == Push(chestBuf, chestCmOf(f, cl.cmPerPx), MEDIAN_N)
shoulderAfter(cl, f) == Push(shoulderBuf, shoulderCmOf(f, cl.cmPerPx), MEDIAN_N)
waistAfter(cl, f) ==
    IF waistSample(f) THEN Push(waistBuf, waistCmOf(f, cl.cmPerPx), MEDIAN_N) ELSE waistBuf

\* what pushMed returned for the waist on this frame, 0 for null
waistMedOf(cl, f) == IF waistSample(f) THEN MedianOf(waistAfter(cl, f)) ELSE 0

\* mutant: the lock also waits for a waist median
lockFiresNeedsWaist(cl, f) ==
    /\ stableOf(bufNAfter(f), chestAfter(cl, f))
    /\ MedianOf(chestAfter(cl, f)) # 0
    /\ MedianOf(shoulderAfter(cl, f)) # 0
    /\ waistMedOf(cl, f) # 0

\* stable && chestMed && shoulderMed
lockFires(cl, f) ==
    /\ stableOf(bufNAfter(f), chestAfter(cl, f))
    /\ MedianOf(chestAfter(cl, f)) # 0
    /\ MedianOf(shoulderAfter(cl, f)) # 0

\* mutant: the frame count is taken from the stability window
outOfStabilityLength(cl, f) ==
    [chestCm |-> toFixed1(MedianOf(chestAfter(cl, f))),
     shoulderCm |-> toFixed1(MedianOf(shoulderAfter(cl, f))),
     upperWaistCm |-> IF waistMedOf(cl, f) # 0 THEN toFixed1(waistMedOf(cl, f)) ELSE Undefined,
     quality |-> [frames |-> Len(bufNAfter(f)),
                  spreadCm |-> toFixed2(spreadOf(chestAfter(cl, f)))]]

\* const out = {...}
outOf(cl, f) ==
    [chestCm |-> toFixed1(MedianOf(chestAfter(cl, f))),
     shoulderCm |-> toFixed1(MedianOf(shoulderAfter(cl, f))),
     upperWaistCm |-> IF waistMedOf(cl, f) # 0 THEN toFixed1(waistMedOf(cl, f)) ELSE Undefined,
     quality |-> [frames |-> Len(chestAfter(cl, f)),
                  spreadCm |-> toFixed2(spreadOf(chestAfter(cl, f)))]]

PushAll(cl, f) ==
    /\ recentShoulderN' = bufNAfter(f)
    /\ chestBuf' = chestAfter(cl, f)
    /\ shoulderBuf' = shoulderAfter(cl, f)
    /\ waistBuf' = waistAfter(cl, f)
    /\ base' = IF base = "none" THEN f.k ELSE base
    /\ odd' = IF base # "none" /\ f.k # base THEN odd + 1 ELSE odd
    /\ pushed' = IF pushed < PushedCap THEN pushed + 1 ELSE pushed
    /\ UNCHANGED <<calls, out>>

\* setMeas(out); setLocked(true); setPhase("locked"); setStatus(...); stopCamera()
LockNow(cl, f) ==
    /\ meas' = <<outOf(cl, f)>>
    /\ locked' = TRUE
    /\ phase' = "locked"
    /\ status' = "Locked"
    /\ stopCamera

\* pose.onResults((res) => {...}) of a pose whose callback closes over cl
OnResults(cl, f) ==
    IF droppedLocked(cl) THEN UNCHANGED vars
    ELSE IF ~Accepted(cl, f) THEN
        /\ status' = RejectStatus(cl, f)
        /\ UNCHANGED <<phase, barPx, cmPerPx, locked, meas, bufs, ghost, calls, out,
                       poseRef, camVars, effDeps, hasCleanup>>
    ELSE
        /\ PushAll(cl, f)
        /\ IF lockFires(cl, f)
           THEN LockNow(cl, f)
           ELSE /\ status' = "Hold still"
                /\ UNCHANGED <<phase, locked, meas, camVars>>
        /\ UNCHANGED <<barPx, cmPerPx, poseRef, effDeps, hasCleanup>>

\* a running Camera hands a frame of F to its pose, whose result reaches the callback;
\* at most limit of the frames pushed into one filling of the windows differ from its first
FrameFrom(F, limit) ==
    \E c \in Running : \E f \in F :
        /\ OnPage
        /\ (Accepted(cams[c], f) /\ base # "none" /\ f.k # base) => odd < limit
        /\ OnResults(cams[c], f)

Frame == FrameFrom(SessionFrames, MaxOddSession)

FrameGated == FrameFrom(GatedFrames, MaxOdd)

-----------------------------------------------------------------------------
(* Operator controls; each is rendered only in the phase given in its guard *)

\* onChange={(e)=>setBarPx(Number(e.target.value))}
SetBarPx ==
    \E b \in BarValues :
        /\ phase = "calibrate"
        /\ ~EffectPending
        /\ OnPage
        /\ barPx' = b
        /\ UNCHANGED <<phase, status, cmPerPx, locked, meas, bufs, ghost, calls, out,
                       poseRef, camVars, effDeps, hasCleanup>>

\* mutant: any bar width is accepted
setCalibrationNoGuard ==
    /\ cmPerPx' = (A4_WIDTH_CM * CmScale) \div barPx
    /\ phase' = "measure"
    /\ status' = "Calibration set."
    /\ ResetBuffers
    /\ UNCHANGED <<barPx, locked, meas, poseRef, camVars, effDeps, hasCleanup>>

\* mutant: the ratio is taken from the initial bar width, not the current one
setCalibrationInitialBar ==
    IF barPx < MIN_BAR_PX THEN UNCHANGED vars
    ELSE
        /\ cmPerPx' = (A4_WIDTH_CM * CmScale) \div InitBarPx
        /\ phase' = "measure"
        /\ status' = "Calibration set."
        /\ ResetBuffers
        /\ UNCHANGED <<barPx, locked, meas, poseRef, camVars, effDeps, hasCleanup>>

setCalibration ==
    IF barPx < MIN_BAR_PX THEN UNCHANGED vars
    ELSE
        /\ cmPerPx' = (A4_WIDTH_CM * CmScale) \div barPx
        /\ phase' = "measure"
        /\ status' = "Calibration set."
        /\ ResetBuffers
        /\ UNCHANGED <<barPx, locked, meas, poseRef, camVars, effDeps, hasCleanup>>

SetCalibration ==
    /\ phase = "calibrate"
    /\ ~EffectPending
    /\ OnPage
    /\ setCalibration

retake ==
    /\ locked' = FALSE
    /\ meas' = <<>>
    /\ phase' = "measure"
    /\ status' = "Stand centered; hold still."
    /\ ResetBuffers
    /\ IF poseRef # <<>> THEN startCamera(poseRef[1]) ELSE UNCHANGED camVars
    /\ UNCHANGED <<barPx, cmPerPx, poseRef, effDeps, hasCleanup>>

Retake ==
    /\ phase = "locked"
    /\ meas # <<>>
    /\ ~EffectPending
    /\ OnPage
    /\ retake

recalibrate ==
    /\ locked' = FALSE
    /\ meas' = <<>>
    /\ phase' = "calibrate"
    /\ status' = "Hold an A4 sheet at chest level and match the bar width."
    /\ ResetBuffers
    /\ IF poseRef # <<>> THEN startCamera(poseRef[1]) ELSE UNCHANGED camVars
    /\ UNCHANGED <<barPx, cmPerPx, poseRef, effDeps, hasCleanup>>

Recalibrate ==
    /\ phase = "locked"
    /\ meas # <<>>
    /\ ~EffectPending
    /\ OnPage
    /\ recalibrate

-----------------------------------------------------------------------------
(* Calls of the size classifier *)

\* what the earlier calls on these same arguments returned
earlier(args) == IF sizeArgs = args THEN sizeRet ELSE <<>>

\* one call recommendTopSize(chestCm, waistCm, shoulderCm)
Invoke(chestCm, waistCm, shoulderCm) ==
    /\ Len(earlier(<<chestCm, waistCm, shoulderCm>>)) < MaxCalls
    /\ sizeArgs' = <<chestCm, waistCm, shoulderCm>>
    /\ sizeRet' = Append(earlier(<<chestCm, waistCm, shoulderCm>>),
                         recommendTopSize(chestCm, waistCm, shoulderCm))
    /\ UNCHANGED <<react, bufs, ghost, poseRef, camVars, effDeps, hasCleanup, out>>

\* the results panel of the locked phase calls it on the locked record
Recommend ==
    /\ phase = "locked"
    /\ meas # <<>>
    /\ OnPage
    /\ Invoke(meas[1].chestCm, meas[1].upperWaistCm, meas[1].shoulderCm)

\* the query string built by the Get Recommendations button
queryOf(size) ==
    [size |-> size,
     gender |-> "Men",
     measurements |-> [chestCm |-> meas[1].chestCm,
                       shoulderCm |-> meas[1].shoulderCm,
                       upperWaistCm |-> meas[1].upperWaistCm]]

\* onClick of Get Recommendations: nothing happens when recommendedSize is null
getRecommendations ==
    LET recommendedSize ==
            recommendTopSize(meas[1].chestCm, meas[1].upperWaistCm, meas[1].shoulderCm)
    IN  IF recommendedSize = "null" THEN UNCHANGED vars
        ELSE /\ href' = <<queryOf(recommendedSize)>>
             /\ UNCHANGED <<react, bufs, ghost, poseRef, camVars, effDeps, hasCleanup,
                            calls, estimatedSize>>

\* the button is part of the results panel of the locked phase
GetRecommendations ==
    /\ phase = "locked"
    /\ meas # <<>>
    /\ ~EffectPending
    /\ OnPage
    /\ getRecommendations

\* the function applied to given arguments
Classify ==
    /\ sizeArgs # <<>>
    /\ Invoke(sizeArgs[1], sizeArgs[2], sizeArgs[3])

\* const estimatedSize = estimateSizeFromMeasurements(measurements) of POST /predict
Estimate ==
    /\ sizeArgs # <<>>
    /\ estimatedSize = <<>>
    /\ estimatedSize' = <<estimateSizeFromMeasurements(sizeArgs[1], sizeArgs[2], sizeArgs[3])>>
    /\ UNCHANGED <<react, bufs, ghost, poseRef, camVars, effDeps, hasCleanup, calls, href>>

-----------------------------------------------------------------------------

Init ==
    /\ phase = "calibrate"
    /\ status = "Hold an A4 sheet at chest level and match the bar width."
    /\ barPx = InitBarPx
    /\ cmPerPx = 0
    /\ locked = FALSE
    /\ meas = <<>>
    /\ recentShoulderN = <<>>
    /\ chestBuf = <<>>
    /\ shoulderBuf = <<>>
    /\ waistBuf = <<>>
    /\ poseRef = <<>>
    /\ camRef = 0
    /\ srcObject = 0
    /\ cams = NoCams
    /\ effDeps = <<>>
    /\ hasCleanup = FALSE
    /\ base = "none"
    /\ odd = 0
    /\ pushed = 0
    /\ sizeArgs = <<>>
    /\ sizeRet = <<>>
    /\ estimatedSize = <<>>
    /\ href = <<>>

Next ==
    \/ RunEffectOk
    \/ RunEffectThrows
    \/ Frame
    \/ SetBarPx
    \/ SetCalibration
    \/ Retake
    \/ Recalibrate
    \/ Recommend
    \/ GetRecommendations

Spec == Init /\ [][Next]_vars

-----------------------------------------------------------------------------
(* The measuring phase alone: the session right after a successful          *)
(* setCalibration whose effect has run, fed by a subject who stays in view, *)
(* up to the lock and the effect run that follows it.                       *)

InitWindows ==
    \E b \in BarValues :
        /\ b >= MIN_BAR_PX
        /\ phase = "measure"
        /\ status = "Calibration set."
        /\ barPx = b
        /\ cmPerPx = (A4_WIDTH_CM * CmScale) \div b
        /\ locked = FALSE
        /\ meas = <<>>
        /\ recentShoulderN = <<>>
        /\ chestBuf = <<>>
        /\ shoulderBuf = <<>>
        /\ waistBuf = <<>>
        /\ poseRef = <<Cl("measure", (A4_WIDTH_CM * CmScale) \div b, FALSE)>>
        /\ camRef = 1
        /\ srcObject = 1
        /\ cams = camsAfterStart(NoCams, Cl("measure", (A4_WIDTH_CM * CmScale) \div b, FALSE))
        /\ effDeps = <<"measure", (A4_WIDTH_CM * CmScale) \div b, FALSE, b>>
        /\ hasCleanup = TRUE
        /\ base = "none"
        /\ odd = 0
        /\ pushed = 0
    /\ sizeArgs = <<>>
    /\ sizeRet = <<>>
    /\ estimatedSize = <<>>
    /\ href = <<>>

NextWindows ==
    \/ FrameGated
    \/ RunEffectOk
    \/ Recommend
    \/ GetRecommendations

SpecWindows == InitWindows /\ [][NextWindows]_vars

-----------------------------------------------------------------------------
(* The size classifier alone, applied to arguments that include missing,    *)
(* zero and negative measurements; the session is the freshly mounted one.  *)

InitClassify ==
    /\ phase = "calibrate"
    /\ status = "Hold an A4 sheet at chest level and match the bar width."
    /\ barPx = InitBarPx
    /\ cmPerPx = 0
    /\ locked = FALSE
    /\ meas = <<>>
    /\ recentShoulderN = <<>>
    /\ chestBuf = <<>>
    /\ shoulderBuf = <<>>
    /\ waistBuf = <<>>
    /\ poseRef = <<>>
    /\ camRef = 0
    /\ srcObject = 0
    /\ cams = NoCams
    /\ effDeps = <<>>
    /\ hasCleanup = FALSE
    /\ base = "none"
    /\ odd = 0
    /\ pushed = 0
    /\ sizeArgs \in {<<c, w, s>> : c \in ChestValues, w \in WaistValues, s \in ShoulderValues}
    /\ sizeRet = <<>>
    /\ estimatedSize = <<>>
    /\ href = <<>>

NextClassify ==
    \/ Classify
    \/ Estimate

SpecClassify == InitClassify /\ [][NextClassify]_vars

-----------------------------------------------------------------------------
(* Claims *)

\* a frame the visibility checks turn away: no landmark array, a shoulder
\* (11 or 12) not above the threshold, or neither hip (23, 24) above it
NotVisible(f) ==
    \/ ~f.lm
    \/ f.Lsh.v <= VIS_PCT
    \/ f.Rsh.v <= VIS_PCT
    \/ (f.Lhip.v <= VIS_PCT /\ f.Rhip.v <= VIS_PCT)

\* C1: processing a frame whose landmark array is absent, or with a shoulder not
\* above the visibility threshold, or with neither hip above it, leaves the four
\* sliding windows unchanged and creates no measurement.
C1_RejectedFrameLeavesWindows ==
    [][\A c \in Running : \A f \in Frames :
          (NotVisible(f) /\ OnResults(cams[c], f))
              => (UNCHANGED bufs /\ UNCHANGED meas)]_vars

\* a frame was turned away by the visibility checks while the windows held samples
C1_Witness ==
    /\ status \in {"Detecting body", "Show shoulders & upper torso."}
    /\ phase = "measure"
    /\ Len(chestBuf) > 0
    /\ Len(recentShoulderN) > 0

\* the lock condition as the spec words it, on windows bufN, chest and shoulder:
\* the stability window is full (12) with every deviation from its mean below 0.015,
\* the chest spread is below 1.8 cm, and both medians are defined
C2_Cond(bufN, chest, shoulder) ==
    /\ Len(bufN) = 12
    /\ \A i \in 1..Len(bufN) :
           1000 * Abs(12 * bufN[i] - SumSeq(bufN)) < 15 * FrameW * 12
    /\ chest # <<>>
    /\ shoulder # <<>>
    /\ 10 * (SeqMax(chest) - SeqMin(chest)) < 18 * CmScale

LockStep == meas = <<>> /\ meas' # <<>>

\* C3: the session never locks before the stability window has reached its
\* capacity: after a reset no lock fires until 12 frames have been pushed.
C3_NoLockBeforeCapacity ==
    [][LockStep => (pushed' >= 12 /\ Len(recentShoulderN') = 12)]_vars

\* a lock on exactly the twelfth frame pushed since the reset
C3_Witness ==
    /\ phase = "locked"
    /\ meas # <<>>
    /\ pushed = 12

\* C4: right after retake() or recalibrate() returns, the stability, chest,
\* shoulder and waist windows all have length zero.
C4_ResetClearsWindows ==
    [][(retake \/ recalibrate)
          => /\ Len(recentShoulderN') = 0
             /\ Len(chestBuf') = 0
             /\ Len(shoulderBuf') = 0
             /\ Len(waistBuf') = 0]_vars

\* retake has just returned (its effect has not run yet) and the windows are empty
C4_Witness ==
    /\ status = "Stand centered; hold still."
    /\ phase = "measure"
    /\ effDeps[1] = "locked"
    /\ bufs = <<<<>>, <<>>, <<>>, <<>>>>

\* C5: no stale-metric bleed-through: when a lock fires, every window holds only
\* samples pushed since the last reset, and the frame count frozen into the
\* record is no more than the number of frames pushed since then.
C5_NoStaleSamplesAtLock ==
    [][LockStep
          => /\ Len(recentShoulderN') <= pushed'
             /\ Len(chestBuf') <= pushed'
             /\ Len(shoulderBuf') <= pushed'
             /\ Len(waistBuf') <= pushed'
             /\ meas'[1].quality.frames <= pushed']_vars

\* a lock in a session that follows a retake or recalibrate: the Camera of the
\* earlier locked session still runs, and the effect of this lock is pending
C5_Witness ==
    /\ phase = "locked"
    /\ meas # <<>>
    /\ effDeps # <<>>
    /\ effDeps[3] = FALSE
    /\ \E c \in Running : cams[c].locked

\* C6 as claimed: cmPerPx is defined exactly when the phase is measuring or locked.
C6_Original == (cmPerPx # 0) <=> (phase \in {"measure", "locked"})

\* C7 as claimed: a LockedMeasurement exists exactly when the phase is locked.
C7_Original == (meas # <<>>) <=> (phase = "locked")

C10_Original == locked => Running = {}

\* C11 as claimed: at most one Camera instance is running at any time (each one
\* started is stopped no later than when the next one is started).
C11_Original == Cardinality(Running) <= 1

\* C12 as claimed: once the phase is error it stays error, and from then on no
\* LockedMeasurement is created and no sliding window is mutated.
C12_Original ==
    [][phase = "error"
          => (phase' = "error" /\ UNCHANGED bufs /\ UNCHANGED meas)]_vars

\* C13 as claimed: once the estimator has thrown during initialization the phase
\* is error and no Camera instance is left running.
C13_Original == phase = "error" => Running = {}

\* the phase changes the spec allows
C14_Edges ==
    {<<"calibrate", "measure">>, <<"measure", "locked">>, <<"measure", "calibrate">>,
     <<"locked", "measure">>,
     <<"calibrate", "error">>, <<"measure", "error">>, <<"locked", "error">>}

\* C14 as claimed: the phase changes only along calibrating->measuring,
\* measuring->locked, measuring->calibrating, locked->measuring and any->error.
C14_Original == [][phase' # phase => <<phase, phase'>> \in C14_Edges]_vars

C16_CalibrationSetsRatioAndClears ==
    [][(SetCalibration /\ barPx >= MIN_BAR_PX)
          => /\ cmPerPx' * barPx = A4_WIDTH_CM * CmScale
             /\ phase' = "measure"
             /\ recentShoulderN' = <<>>
             /\ chestBuf' = <<>>
             /\ shoulderBuf' = <<>>
             /\ waistBuf' = <<>>]_vars

\* calibrated with a bar other than the initial one, windows empty
C16_Witness ==
    /\ phase = "measure"
    /\ status = "Calibration set."
    /\ barPx # InitBarPx
    /\ cmPerPx * barPx = A4_WIDTH_CM * CmScale
    /\ bufs = <<<<>>, <<>>, <<>>, <<>>>>

\* a callback registered after a calibration with a 300 px bar takes frame f to the pushes
C17_Step(f) ==
    \E c \in Running :
        /\ cams[c].cmPerPx * 300 = A4_WIDTH_CM * CmScale
        /\ Accepted(cams[c], f)
        /\ OnResults(cams[c], f)

\* C17: with the 21 cm reference, calibrating with a 300 px bar gives
\* cmPerPx = 0.07, and a frame whose shoulders are 400 px apart horizontally
\* then gives the samples shoulderCm = 28.0 and chest = 49.0 (28.0 x 1.75).
C17_CalibrationExample ==
    [][/\ (SetCalibration /\ barPx = 300) => cmPerPx' * 100 = 7 * CmScale
       /\ \A f \in {g \in Frames : Abs(g.Lsh.x - g.Rsh.x) = 400} :
             C17_Step(f)
                => /\ shoulderBuf'[Len(shoulderBuf')] = 28 * CmScale
                   /\ chestBuf'[Len(chestBuf')] = 49 * CmScale
                   /\ 100 * chestBuf'[Len(chestBuf')] = 175 * (28 * CmScale)]_vars

\* the sample of a 400 px frame is in the windows of a session calibrated at 300 px
C17_Witness ==
    /\ cmPerPx * 100 = 7 * CmScale
    /\ barPx = 300
    /\ shoulderBuf # <<>>
    /\ shoulderBuf[Len(shoulderBuf)] = 28 * CmScale
    /\ chestBuf[Len(chestBuf)] = 49 * CmScale

\* the k-th smallest element of s, by counting the elements below it
Kth(s, k) ==
    CHOOSE v \in {s[i] : i \in DOMAIN s} :
        /\ Cardinality({i \in DOMAIN s : s[i] < v}) < k
        /\ Cardinality({i \in DOMAIN s : s[i] <= v}) >= k

\* the median of a non-empty s: the middle element by rank, or half the sum of the two middle ones
TrueMedian(s) ==
    IF Len(s) % 2 = 1 THEN Kth(s, (Len(s) + 1) \div 2)
    ELSE (Kth(s, Len(s) \div 2) + Kth(s, Len(s) \div 2 + 1)) \div 2

\* the windows pushMed is applied to
C18_Windows == {w \in {chestBuf, shoulderBuf, waistBuf} : w # <<>>}

\* a frame reaches the pushes
C18_PushStep ==
    \E c \in Running : \E f \in Frames : Accepted(cams[c], f) /\ OnResults(cams[c], f)

\* window new is window old with its oldest sample dropped if it was full and
\* one sample added at the end: what it held keeps its order
C18_Kept(old, new) ==
    /\ new # <<>>
    /\ SubSeq(new, 1, Len(new) - 1) = (IF Len(old) = MEDIAN_N THEN Tail(old) ELSE old)

\* C18: what pushMed computes is the exact median of the window as it is after
\* the push and the eviction (the middle element of the sorted window for odd
\* length, the average of the two middle ones for even length; <<10,12,11>>
\* and <<10,12>> both give 11), and the window keeps its arrival order.
C18_MedianExact ==
    /\ [](/\ \A w \in C18_Windows : MedianOf(w) = TrueMedian(w)
          /\ MedianOf(<<10, 12, 11>>) = 11
          /\ MedianOf(<<10, 12>>) = 11)
    /\ [][C18_PushStep
             => /\ C18_Kept(chestBuf, chestBuf')
                /\ C18_Kept(shoulderBuf, shoulderBuf')
                /\ (waistBuf' = waistBuf \/ C18_Kept(waistBuf, waistBuf'))]_vars

\* an even-length window that is not in sorted order and whose median is the
\* average of its two elements
C18_Witness ==
    /\ Len(chestBuf) = 2
    /\ chestBuf[2] < chestBuf[1]
    /\ 2 * MedianOf(chestBuf) = chestBuf[1] + chestBuf[2]
    /\ MedianOf(chestBuf) # chestBuf[1]

\* one of the arguments of the recorded calls is missing or not positive
C19_Invalid == \E k \in 1..3 : sizeArgs[k] = Undefined \/ sizeArgs[k] <= 0

\* C19: recommendTopSize returns the null result whenever chest, waist or
\* shoulder is missing or <= 0 and otherwise exactly one of L and XL; chest 105,
\* shoulder 50, waist 90 gives XL and chest 85, shoulder 40, waist 72 gives L.
C19_AbsentOrOneOfTwo ==
    \A i \in DOMAIN sizeRet :
        /\ IF C19_Invalid THEN sizeRet[i] = "null" ELSE sizeRet[i] \in {"L", "XL"}
        /\ sizeArgs = <<1050, 900, 500>> => sizeRet[i] = "XL"
        /\ sizeArgs = <<850, 720, 400>> => sizeRet[i] = "L"

\* the function was applied to chest 85, shoulder 40, waist 72
C19_Witness ==
    /\ sizeArgs = <<850, 720, 400>>
    /\ sizeRet # <<>>
    /\ sizeRet[1] = "L"

C21_Xl(v, cuts, points) ==
    IF v >= cuts[1] THEN points[1]
    ELSE IF Len(cuts) > 1 /\ v >= cuts[2] THEN points[2]
    ELSE IF Len(cuts) > 2 /\ v >= cuts[3] THEN points[3]
    ELSE 0

\* the aggregate scores of the recorded arguments, from the band tables
C21_XlScore ==
    C21_Xl(sizeArgs[1], <<1000, 950, 900>>, <<3, 2, 1>>)
    + C21_Xl(sizeArgs[3], <<480, 450>>, <<2, 1>>)
    + C21_Xl(sizeArgs[2], <<850, 800>>, <<2, 1>>)

C21_LScore ==
    (IF sizeArgs[1] >= 850 /\ sizeArgs[1] < 900 THEN 2
     ELSE IF sizeArgs[1] >= 800 /\ sizeArgs[1] < 850 THEN 1 ELSE 0)
    + (IF sizeArgs[3] >= 420 /\ sizeArgs[3] < 450 THEN 2
       ELSE IF sizeArgs[3] >= 380 /\ sizeArgs[3] < 420 THEN 1 ELSE 0)
    + (IF sizeArgs[2] >= 750 /\ sizeArgs[2] < 800 THEN 2
       ELSE IF sizeArgs[2] >= 700 /\ sizeArgs[2] < 750 THEN 1 ELSE 0)

\* C21: for valid measurements recommendTopSize returns XL exactly when the XL
\* score is strictly greater than the L score; equal scores, both zero
\* included, return L.
C21_HigherScoreTiesToL ==
    \A i \in DOMAIN sizeRet :
        ~C19_Invalid
            => /\ (sizeRet[i] = "XL") <=> (C21_XlScore > C21_LScore)
               /\ (C21_XlScore = C21_LScore) => sizeRet[i] = "L"
               /\ sizeRet[i] \in {"L", "XL"}

\* the function was applied to measurements whose scores are equal and not zero
C21_Witness ==
    /\ sizeRet # <<>>
    /\ ~C19_Invalid
    /\ C21_XlScore = C21_LScore
    /\ C21_XlScore > 0
    /\ sizeRet[1] = "L"

\* the chest values at which the next size band starts: 80 cm, then every 5 cm up to 115 cm
C22_Cuts == {800 + 50 * k : k \in 0..7}

\* position of the primary size of the recorded arguments in the enumeration
C22_Primary == 1 + Cardinality({c \in C22_Cuts : sizeArgs[1] >= c})

\* the sum of the two adjustments of the recorded arguments
C22_Adjust ==
    (IF 100 * sizeArgs[2] < 80 * sizeArgs[1] THEN 0 - 1
     ELSE IF 100 * sizeArgs[2] > 90 * sizeArgs[1] THEN 1 ELSE 0)
    + (IF 100 * sizeArgs[3] < 50 * sizeArgs[1] THEN 0 - 1
       ELSE IF 100 * sizeArgs[3] > 60 * sizeArgs[1] THEN 1 ELSE 0)

C22_Clamped ==
    IF C22_Primary + C22_Adjust < 1 THEN 1
    ELSE IF C22_Primary + C22_Adjust > 9 THEN 9
    ELSE C22_Primary + C22_Adjust

\* C22: for valid positive inputs estimateSizeFromMeasurements takes the primary
\* size from the chest band alone (XXS below 80, 5 cm bands, 4XL from 115), adds
\* -1/0/+1 for the waist-to-chest ratio (< 0.80 / otherwise / > 0.90) and
\* -1/0/+1 for the shoulder-to-chest ratio (< 0.50 / otherwise / > 0.60), and
\* returns the size at that position clamped to XXS..4XL: a size of the
\* enumeration at most two steps from the primary one.
C22_BandPlusAdjustments ==
    (estimatedSize # <<>> /\ ~C19_Invalid)
        => /\ estimatedSize[1] = sizeOrder[C22_Clamped]
           /\ sizeOrder[1] = "XXS" /\ sizeOrder[9] = "4XL" /\ Len(sizeOrder) = 9
           /\ \E i \in 1..9 :
                 /\ sizeOrder[i] = estimatedSize[1]
                 /\ i - C22_Primary \in {0 - 2, 0 - 1, 0, 1, 2}

\* chest 95 (L), waist 65 and shoulder 40 both adjust down: S
C22_Witness ==
    /\ sizeArgs = <<950, 650, 400>>
    /\ estimatedSize = <<"S">>

\* C23 as claimed: estimateSizeFromMeasurements returns no size label when
\* chest, waist or shoulder is missing or <= 0.
C23_Original ==
    (estimatedSize # <<>> /\ C19_Invalid)
        => \A i \in DOMAIN sizeOrder : estimatedSize[1] # sizeOrder[i]

\* a shoulder or the resolved hip lies outside the guide rectangle, inset 8% on each side
C24_Outside(f) ==
    \E p \in {f.Lsh, f.Rsh, IF f.Lhip.v > VIS_PCT THEN f.Lhip ELSE f.Rhip} :
        \/ 100 * p.x < GUIDE_MARGIN_PCT * FrameW
        \/ 100 * p.x > (100 - GUIDE_MARGIN_PCT) * FrameW
        \/ 100 * p.y < GUIDE_MARGIN_PCT * FrameW
        \/ 100 * p.y > (100 - GUIDE_MARGIN_PCT) * FrameW

\* the reason of the first failing check
C24_Reason(f) ==
    IF ~f.lm THEN "Detecting body"
    ELSE IF NotVisible(f) THEN "Show shoulders & upper torso."
    ELSE "Step back/center inside the frame."

\* C24: a frame the Landmark Gate rejects sets the status to the reason of the
\* first failing check, in the order no landmarks, shoulders or hips not
\* visible, a shoulder or the resolved hip outside the guide rectangle; the
\* status is never left as it was.
C24_RejectionSetsReason ==
    [][\A c \in Running : \A f \in Frames :
          (/\ ~cams[c].locked
           /\ (NotVisible(f) \/ C24_Outside(f))
           /\ OnResults(cams[c], f))
              => status' = C24_Reason(f)]_vars

\* a measuring session whose last frame was outside the guide rectangle
C24_Witness ==
    /\ phase = "measure"
    /\ chestBuf # <<>>
    /\ status = "Step back/center inside the frame."

\* C25 as claimed: the query is emitted only in the locked phase and only with
\* a label L or XL that the classifier returns for the locked record, it
\* carries the locked chestCm, shoulderCm and upperWaistCm, and every locked
\* session can emit it: the classifier is never absent for a locked record.
C25_Original ==
    /\ [][href' # href
             => /\ phase = "locked"
                /\ meas # <<>>
                /\ href'[1].size \in {"L", "XL"}
                /\ href'[1].size = recommendTopSize(meas[1].chestCm, meas[1].upperWaistCm,
                                                    meas[1].shoulderCm)
                /\ href'[1].measurements.chestCm = meas[1].chestCm
                /\ href'[1].measurements.shoulderCm = meas[1].shoulderCm
                /\ href'[1].measurements.upperWaistCm = meas[1].upperWaistCm]_vars
    /\ [](meas # <<>>
             => recommendTopSize(meas[1].chestCm, meas[1].upperWaistCm, meas[1].shoulderCm)
                    # "null")

\* window new holds the samples of window old and one more, the oldest of them
\* dropped if that made more than cap, each in the place its arrival gives it
C26_Fifo(old, new, cap) ==
    /\ Len(new) = (IF Len(old) < cap THEN Len(old) + 1 ELSE cap)
    /\ \A i \in 1..(Len(new) - 1) : new[i] = old[i + Len(old) + 1 - Len(new)]

\* C26: the stability window never holds more than 12 samples and the chest,
\* shoulder and waist windows never more than 15, and every push keeps the
\* most recent samples in arrival order, evicting the oldest at capacity.
C26_BoundedFifo ==
    /\ [](/\ Len(recentShoulderN) <= 12
          /\ Len(chestBuf) <= 15
          /\ Len(shoulderBuf) <= 15
          /\ Len(waistBuf) <= 15)
    /\ [][C18_PushStep
             => /\ C26_Fifo(recentShoulderN, recentShoulderN', 12)
                /\ C26_Fifo(chestBuf, chestBuf', 15)
                /\ C26_Fifo(shoulderBuf, shoulderBuf', 15)
                /\ (waistBuf' = waistBuf \/ C26_Fifo(waistBuf, waistBuf', 15))]_vars

\* all windows at capacity after an eviction, the chest window holding two different samples
C26_Witness ==
    /\ pushed > MEDIAN_N
    /\ Len(recentShoulderN) = 12
    /\ Len(chestBuf) = 15
    /\ Len(waistBuf) = 15
    /\ \E i \in DOMAIN chestBuf : chestBuf[i] # chestBuf[1]

\* largest minus smallest sample of the chest window w
C27_MaxMinusMin(w) ==
    (CHOOSE a \in {w[i] : i \in DOMAIN w} : \A j \in DOMAIN w : w[j] <= a)
    - (CHOOSE b \in {w[i] : i \in DOMAIN w} : \A j \in DOMAIN w : w[j] >= b)

\* C27 as claimed: a lock finds at least 8 samples in the chest window, and the
\* spreadCm it stores equals max - min of that window and is below 1.8.
C27_Original ==
    [][LockStep
          => /\ Len(chestBuf') >= 8
             /\ meas'[1].quality.spreadCm * CmScale = 100 * C27_MaxMinusMin(chestBuf')
             /\ meas'[1].quality.spreadCm < 180]_vars

\* C27: the spread used for the lock decision is max - min of the chest window,
\* available only from 8 samples on (no lock below that); at a lock it is
\* below 1.8, and the spreadCm stored is that spread rounded to two decimals,
\* hence at most 1.80.
C27_SpreadRounded ==
    [][LockStep
          => /\ Len(chestBuf') >= 8
             /\ 10 * C27_MaxMinusMin(chestBuf') < 18 * CmScale
             /\ 2 * Abs(meas'[1].quality.spreadCm * CmScale - 100 * C27_MaxMinusMin(chestBuf'))
                   <= CmScale
             /\ meas'[1].quality.spreadCm <= 180]_vars

\* a locked record whose stored spread is not a whole number of hundredths
\* in the window: shoulders 403 px among 400 px at 0.07 cm per px leave 0.3675
C27_Witness ==
    /\ phase = "locked"
    /\ meas # <<>>
    /\ meas[1].quality.spreadCm = 37
    /\ 10000 * C27_MaxMinusMin(chestBuf) = 3675 * CmScale

\* v, in units of 1/CmScale, and tenths, in tenths of a cm, agree to one decimal
C28_ToOneDecimal(v, tenths) == 2 * Abs(tenths * CmScale - 10 * v) <= CmScale

\* C28 as claimed: the chestCm, shoulderCm and upperWaistCm frozen by a lock
\* equal, to one decimal, the medians of the chest, shoulder and waist windows
\* at that moment; upperWaistCm is the waist-window median whenever the waist
\* window is not empty.
C28_Original ==
    [][LockStep
          => /\ C28_ToOneDecimal(TrueMedian(chestBuf'), meas'[1].chestCm)
             /\ C28_ToOneDecimal(TrueMedian(shoulderBuf'), meas'[1].shoulderCm)
             /\ waistBuf' # <<>>
                   => /\ meas'[1].upperWaistCm # Undefined
                      /\ C28_ToOneDecimal(TrueMedian(waistBuf'), meas'[1].upperWaistCm)]_vars

\* the last sample of window w
C29_Last(w) == w[Len(w)]

\* length of a window of capacity cap after one more sample
C29_OneMore(w, cap) == IF Len(w) < cap THEN Len(w) + 1 ELSE cap

\* C29: the samples of an accepted frame are functions of its landmarks, the
\* frame width and cmPerPx alone: shoulderCm = |Lsh.x - Rsh.x| x W x cmPerPx,
\* chest = shoulderCm x 1.75, waist = |Lhip.x - Rhip.x| x W x cmPerPx x 0.90;
\* there is a waist sample only if both hips are visible, and without one the
\* waist window is left as it is while the chest, shoulder and stability
\* windows each receive one sample.
C29_SamplesFromFrameAlone ==
    [][\A c \in Running : \A f \in Frames :
          (Accepted(cams[c], f) /\ OnResults(cams[c], f))
              => /\ C29_Last(shoulderBuf') = Abs(f.Lsh.x - f.Rsh.x) * cmPerPx
                 /\ 100 * C29_Last(chestBuf') = 175 * Abs(f.Lsh.x - f.Rsh.x) * cmPerPx
                 /\ Len(recentShoulderN') = C29_OneMore(recentShoulderN, 12)
                 /\ Len(chestBuf') = C29_OneMore(chestBuf, 15)
                 /\ Len(shoulderBuf') = C29_OneMore(shoulderBuf, 15)
                 /\ IF f.Lhip.v > VIS_PCT /\ f.Rhip.v > VIS_PCT
                    THEN /\ Len(waistBuf') = C29_OneMore(waistBuf, 15)
                         /\ 100 * C29_Last(waistBuf')
                               = 90 * Abs(f.Lhip.x - f.Rhip.x) * cmPerPx
                    ELSE waistBuf' = waistBuf]_vars

\* frames with one hip hidden have been pushed: the waist window is empty,
\* the other three hold a sample for each
C29_Witness ==
    /\ base = "B"
    /\ waistBuf = <<>>
    /\ Len(chestBuf) >= 2
    /\ Len(shoulderBuf) = Len(chestBuf)
    /\ Len(recentShoulderN) = Len(chestBuf)

\* the midpoint of the shoulders of f is its resolved hip
C30_ZeroTorso(f) ==
    LET hip == IF f.Lhip.v > VIS_PCT THEN f.Lhip ELSE f.Rhip
    IN  f.Lsh.x + f.Rsh.x = 2 * hip.x /\ f.Lsh.y + f.Rsh.y = 2 * hip.y

\* the largest sample a window can be given: the frame width at the largest
\* cmPerPx a calibration yields, times 1.75
C30_MaxSample == ((FrameW * ((A4_WIDTH_CM * CmScale) \div MIN_BAR_PX)) \div 100) * 175

C31_Original == locked <=> (phase = "locked")

\* C32: while the phase is calibrate no frame changes a window and no record
\* is locked, also when cmPerPx still holds the value of an earlier
\* calibration; the windows are empty for as long as the phase is calibrate.
C32_CalibrateLeavesWindows ==
    /\ [](phase = "calibrate" => (bufs = <<<<>>, <<>>, <<>>, <<>>>> /\ meas = <<>>))
    /\ [][phase = "calibrate" => (UNCHANGED bufs /\ meas' = <<>>)]_vars

\* after recalibrate: cmPerPx kept, the effect has run, and a frame that
\* passed the gate was turned away with the calibration prompt
C32_Witness ==
    /\ phase = "calibrate"
    /\ cmPerPx # 0
    /\ ~EffectPending
    /\ status = "Adjust bar -> Set calibration."
    /\ \E c \in Running : ~cams[c].locked /\ cams[c].cmPerPx # 0

\* the last k samples of window w are all v
C33_LastAre(w, k, v) ==
    /\ Len(w) >= k
    /\ \A i \in (Len(w) - k + 1)..Len(w) : w[i] = v

\* frame f is accepted by the callback of camera c, whose windows already end
\* with the samples of n frames with the landmarks of f
C33_After(c, f, n) ==
    /\ f.Lsh.x # f.Rsh.x
    /\ C33_LastAre(chestBuf, n, chestCmOf(f, cams[c].cmPerPx))
    /\ C33_LastAre(shoulderBuf, n, shoulderCmOf(f, cams[c].cmPerPx))
    /\ Accepted(cams[c], f)
    /\ C33_LastAre(recentShoulderN, 11, getDistance(f.Lsh, f.Rsh))
    /\ OnResults(cams[c], f)

\* C33: the 15th of 15 consecutive accepted frames with identical landmarks
\* and a non-zero horizontal shoulder distance locks the session if none
\* before it did, whatever the windows held before them; the 12th already
\* does when the windows were empty before the first.
C33_StillnessLocks ==
    [][(Len(chestBuf) >= 11 /\ Len(recentShoulderN) >= 11)
          => \A c \in Running : \A f \in Frames :
                (\/ C33_After(c, f, 14)
                 \/ (Len(chestBuf) = 11 /\ Len(recentShoulderN) = 11 /\ C33_After(c, f, 11)))
                    => (meas' # <<>> /\ phase' = "locked" /\ locked')]_vars

\* a lock on the fifteenth identical frame after a different one
C33_Witness ==
    /\ phase = "locked"
    /\ meas # <<>>
    /\ odd = 1
    /\ pushed = PushedCap
    /\ meas[1].quality.frames = 15
    /\ meas[1].quality.spreadCm = 0
    /\ C33_LastAre(chestBuf, 15, chestBuf[1])

\* C34: the frame count stored in a locked record is the length of the chest
\* window at the lock and lies between 12 and 15.
C34_FrameCount ==
    [][LockStep
          => /\ meas'[1].quality.frames = Len(chestBuf')
             /\ meas'[1].quality.frames \in 12..15]_vars

\* a record locked with more frames in the chest window than the stability window holds
C34_Witness ==
    /\ phase = "locked"
    /\ meas # <<>>
    /\ meas[1].quality.frames = 14
    /\ Len(chestBuf) = 14
    /\ Len(recentShoulderN) = 12

\* C35 as claimed: with the other two measurements held fixed, no larger chest,
\* waist or shoulder value turns a result of XL into L.
C35_Original ==
    \A i \in DOMAIN sizeRet :
        (~C19_Invalid /\ sizeRet[i] = "XL")
            => /\ \A v \in ChestValues :
                      v > sizeArgs[1] => recommendTopSize(v, sizeArgs[2], sizeArgs[3]) # "L"
               /\ \A v \in WaistValues :
                      v > sizeArgs[2] => recommendTopSize(sizeArgs[1], v, sizeArgs[3]) # "L"
               /\ \A v \in ShoulderValues :
                      v > sizeArgs[3] => recommendTopSize(sizeArgs[1], sizeArgs[2], v) # "L"

\* the chest and shoulder windows have one length and sample i of the chest
\* window is 1.75 times sample i of the shoulder window
C36_Corresponding ==
    /\ Len(chestBuf) = Len(shoulderBuf)
    /\ \A i \in DOMAIN chestBuf : 100 * chestBuf[i] = 175 * shoulderBuf[i]

\* the medians of the two windows after a step, before rounding
C36_MediansAgree ==
    /\ 100 * TrueMedian(chestBuf') = 175 * TrueMedian(shoulderBuf')
    /\ TrueMedian(chestBuf') # 0
    /\ TrueMedian(shoulderBuf') # 0

\* C36 as claimed: the medians agree before rounding, and the chest stored in
\* a locked record is 1.75 times the stored shoulder, both non-zero.
C36_Original ==
    /\ []C36_Corresponding
    /\ [][LockStep
             => /\ C36_MediansAgree
                /\ 100 * meas'[1].chestCm = 175 * meas'[1].shoulderCm
                /\ meas'[1].chestCm # 0
                /\ meas'[1].shoulderCm # 0]_vars

\* C36 amended: the windows correspond and at a lock the chest median is 1.75
\* times the shoulder median before rounding, both non-zero; the stored chest
\* and shoulder are the one-decimal roundings of the two medians, so the
\* stored chest is within 0.1375 cm of 1.75 times the stored shoulder.
C36_MediansBeforeRounding ==
    /\ []C36_Corresponding
    /\ [][LockStep
             => /\ C36_MediansAgree
                /\ C28_ToOneDecimal(TrueMedian(chestBuf'), meas'[1].chestCm)
                /\ C28_ToOneDecimal(TrueMedian(shoulderBuf'), meas'[1].shoulderCm)
                /\ 2 * Abs(100 * meas'[1].chestCm - 175 * meas'[1].shoulderCm) <= 275]_vars

\* a record whose stored chest, 50.0, is not 1.75 times its stored shoulder, 28.6
C36_Witness ==
    /\ phase = "locked"
    /\ meas # <<>>
    /\ meas[1].chestCm = 500
    /\ meas[1].shoulderCm = 286
    /\ 100 * TrueMedian(chestBuf) = 175 * TrueMedian(shoulderBuf)

====
